---- MODULE Spec2Model ----
(***************************************************************************)
(* Model of the egui/wgpu "Daily Motivation" application (src/src/main.rs): *)
(* the per-frame render pass with its window animation engine, the quote   *)
(* rotation state and the settings file; of its 3D background helper       *)
(* (src/background/src/main.rs), which follows the main window; and of the *)
(* WinAPI demo (src/RotateTest/src/main.rs).                               *)
(*                                                                         *)
(* Time is counted in milliseconds.  anim_progress counts the number of    *)
(* `+= 0.016` increments (the f32 value is the accumulated sum); the        *)
(* trigonometric offsets are tabulated per increment from the f32           *)
(* expressions of the source.                                              *)
(***************************************************************************)
EXTENDS Integers, Sequences, FiniteSets, TLC

VARIABLES
    \* ---- window animation state (AppState, main.rs 402-410) ----
    active_animation,      \* AppAnimation
    anim_progress,         \* number of 0.016 increments since the last reset
    bounce_vel_x,          \* signed speed
    bounce_vel_y,
    base_pos,              \* NoPos or <<x, y>>
    rotation,              \* 0..3
    \* ---- the OS window ----
    win_pos,               \* outer position <<x, y>>
    win_size,              \* <<width, height>>
    win_alpha,             \* layered-window alpha, 0..255
    monitor_size,          \* <<width, height>> of the current monitor
    \* ---- quotes and rotation timer (AppState, main.rs 355-381) ----
    quotes,                \* sequence of [main_text, sub_text]
    current_quote_index,   \* 0-based
    rotation_interval,     \* Duration, in ms
    last_rotation,         \* Instant, in ms
    rotation_enabled,
    interval_secs,         \* numeric field bound to the DragValue
    theme,
    text_style,
    main_text_input,
    sub_text_input,
    confirm_clear_pending,
    \* ---- environment ----
    now,                   \* the clock read by Instant::now(), in ms
    frame_ms,              \* frame period of a run with a fixed frame delta
    settings_file,         \* NoFile or the AppConfig stored in settings.json
    launches,              \* number of times the application was started
    \* ---- 3D background helper held by the application (AppState, main.rs 384-386) ----
    is_3d_bg_active,
    bg_process,            \* NoChild or the id of the spawned child process
    helper_procs,          \* ids of the child processes spawned and not yet killed and waited on
    spawned,               \* number of child processes spawned so far
    app_dropped,           \* the AppState has been dropped (shutdown)
    rotation_prop,         \* "RotationState" property of the main window (0 if unset)
    main_minimized,        \* IsIconic(main window)
    \* ---- the helper program (background/src/main.rs) ----
    tracking,              \* TrackingState: [hwnd, frames]
    helper_visible,        \* window.visible of the helper's primary window
    camera_rotation,       \* bits of the f32 angle applied to the camera
    \* ---- the WinAPI demo (RotateTest/src/main.rs), lengths in half pixels ----
    angle,                 \* degrees
    bounce_x,
    bounce_y,
    vel_x,
    vel_y,
    rotating,
    bouncing,
    screen_w,
    screen_h

animVars  == <<active_animation, anim_progress, bounce_vel_x, bounce_vel_y,
               base_pos, rotation>>
winVars   == <<win_pos, win_size, win_alpha, monitor_size>>
quoteVars == <<quotes, current_quote_index, rotation_interval, last_rotation,
               rotation_enabled, interval_secs, theme, text_style,
               main_text_input, sub_text_input, confirm_clear_pending>>
envVars   == <<now, frame_ms, settings_file, launches>>
bgVars    == <<is_3d_bg_active, bg_process, helper_procs, spawned, app_dropped>>
mainWinVars == <<rotation_prop, main_minimized>>
helperVars == <<tracking, helper_visible, camera_rotation>>
demoVars  == <<angle, bounce_x, bounce_y, vel_x, vel_y, rotating, bouncing,
               screen_w, screen_h>>
vars      == <<animVars, winVars, quoteVars, envVars, bgVars, mainWinVars,
               helperVars, demoVars>>

\* ---------------------------------------------------------------------------
\* Bounds of the model
\* ---------------------------------------------------------------------------
MaxFrames      == 4    \* frames of the animation specification
MaxQuotes      == 3    \* longest quote list of the panel specification
MaxPanelFrames == 6    \* frames of the panel and settings specifications
MaxSeconds     == 48   \* simulated seconds of the timer specification
MaxLaunches    == 2    \* application starts of the settings specification
MaxPaceFrames  == 8    \* frames of the frame period specification
MaxBgFrames    == 6    \* frames of the 3D background specification
MaxHelperFrames == 12  \* frames of one helper process
MaxDissolveFrames == 280 \* frames of the dissolve specification
MaxRotateFrames == 160 \* frames of the rotate specification

\* ---------------------------------------------------------------------------
\* Program constants
\* ---------------------------------------------------------------------------
AppAnimation == {"None", "Bounce", "Shake", "Dance", "Rotate", "Dissolve", "Fly"}

NoPos  == <<>>
NoFile == [present |-> FALSE]

\* MIN_WINDOW_SIZE (450, 350), in the unit of the window sizes of the model
\* (90 pixels)
MinWindowSize  == <<5, 4>>
InitBounceVelX == 5
InitBounceVelY == 4
FlySpeed       == 12
OpaqueAlpha    == 255
ActiveFrameMs  == 16
IdleFrameMs    == 100
FrameDeltas    == {ActiveFrameMs, IdleFrameMs}
\* a frame delayed to half a second (the frame period is a lower bound only)
SlowFrameMs    == 500
MaxNow         == MaxFrames * ActiveFrameMs
MaxPanelNow    == MaxPanelFrames * SlowFrameMs
MaxTime        == MaxSeconds * 1000
MaxRotateNow   == MaxRotateFrames * ActiveFrameMs
DefaultIntervalSecs == 8
MinIntervalSecs == 1
MaxIntervalSecs == 60
\* first number of increments n for which the f32 sum of n times 0.016
\* exceeds 2.5
RotateThreshold == 157

\* (anim_progress * 130.0).sin() * 12.0 and (anim_progress * 115.0).cos() * 12.0,
\* cast to i32, for 1, 2, ... increments of 0.016
ShakeOffsetX == <<10, -10, 0, 10, -9, -1, 10, -9, -1, 11, -9, -2>>
ShakeOffsetY == <<-3, -10, 8, 5, -11, 0, 11, -6, -7, 10, 2, -11>>
\* (anim_progress * 4.0).sin() * 70.0 and (anim_progress * 2.5).cos() * 70.0
DanceOffsetX == <<4, 8, 13, 17, 22, 26, 30, 34, 38, 41, 45, 48>>
DanceOffsetY == <<69, 69, 69, 69, 68, 67, 67, 66, 65, 64, 63, 62>>
\* ((0.4 + 0.6 * (anim_progress * 2.5).cos().abs()) * 255.0) as u8
\* for 1, 2, ..., 288 increments of 0.016
DissolveAlpha ==
    <<254, 254, 253, 253, 251, 250, 249, 247, 245, 242, 240, 237, 234, 231, 228, 224,
      220, 217, 212, 208, 204, 199, 194, 189, 184, 179, 174, 168, 163, 157, 151, 145,
      139, 134, 128, 121, 115, 109, 103, 106, 112, 118, 124, 130, 136, 142, 148, 154,
      160, 165, 171, 176, 181, 187, 192, 196, 201, 206, 210, 214, 218, 222, 226, 229,
      233, 236, 238, 241, 243, 246, 248, 249, 251, 252, 253, 254, 254, 254, 254, 254,
      254, 253, 252, 251, 249, 248, 246, 244, 241, 239, 236, 233, 230, 226, 223, 219,
      215, 210, 206, 202, 197, 192, 187, 182, 177, 171, 166, 160, 154, 149, 143, 137,
      131, 125, 119, 113, 106, 103, 109, 115, 121, 127, 133, 139, 145, 151, 156, 162,
      168, 173, 179, 184, 189, 194, 199, 203, 208, 212, 216, 220, 224, 228, 231, 234,
      237, 240, 242, 245, 247, 248, 250, 251, 252, 253, 254, 254, 254, 254, 254, 253,
      253, 252, 250, 249, 247, 245, 243, 240, 237, 235, 231, 228, 225, 221, 217, 213,
      208, 204, 199, 195, 190, 185, 179, 174, 169, 163, 157, 152, 146, 140, 134, 128,
      122, 116, 110, 104, 105, 112, 118, 124, 130, 136, 142, 148, 153, 159, 165, 170,
      176, 181, 186, 191, 196, 201, 205, 210, 214, 218, 222, 226, 229, 232, 235, 238,
      241, 243, 245, 247, 249, 251, 252, 253, 254, 254, 254, 254, 254, 254, 253, 252,
      251, 250, 248, 246, 244, 241, 239, 236, 233, 230, 226, 223, 219, 215, 211, 206,
      202, 197, 192, 187, 182, 177, 172, 166, 160, 155, 149, 143, 137, 131, 125, 119,
      113, 107, 102, 108, 114, 120, 127, 133, 139, 144, 150, 156, 162, 167, 173, 178>>
\* (0.4 * 255.0) as u8, the value at a zero of the cosine
MinDissolveAlpha == 102
\* floor of twice (anim_progress * 2.0).sin() * 150.0
FlyTwiceOffsetY == <<9, 19, 28, 38, 47, 57, 66, 75, 85, 94, 103, 112>>


\* ---------------------------------------------------------------------------
\* Title bar actions (render, main.rs 3404-3681)
\* ---------------------------------------------------------------------------
\* The animation part of the state as a record, so that the handlers of one
\* frame can be composed.
AnimState == [active |-> active_animation, progress |-> anim_progress,
              vx |-> bounce_vel_x, vy |-> bounce_vel_y, base |-> base_pos,
              rot |-> rotation, pos |-> win_pos, size |-> win_size,
              alpha |-> win_alpha]

\* if active_animation == None { if let Ok(pos) = outer_position() { base_pos = Some(pos) } }
CaptureBase(s, pos_ok) ==
    IF s.active = "None" /\ pos_ok THEN [s EXCEPT !.base = s.pos] ELSE s

\* active_animation = if active_animation == X { None } else { X }
Toggle(active, x) == IF active = x THEN "None" ELSE x

\* a trigger that stops a running animation before it starts another one
PlayToggleStopFirst(s, x, pos_ok) ==
    LET p == IF s.active \notin {"None", x}
             THEN [s EXCEPT !.active = "None", !.alpha = OpaqueAlpha,
                            !.progress = 0, !.base = NoPos,
                            !.vx = InitBounceVelX, !.vy = InitBounceVelY]
             ELSE s
        c == CaptureBase(p, pos_ok)
    IN  [c EXCEPT !.active = Toggle(c.active, x)]

PlayToggle(s, x, pos_ok) ==
    LET c == CaptureBase(s, pos_ok) IN [c EXCEPT !.active = Toggle(c.active, x)]

PlayDissolve(s, pos_ok) ==
    LET t == PlayToggle(s, "Dissolve", pos_ok)
    IN  IF t.active = "None" THEN [t EXCEPT !.alpha = OpaqueAlpha] ELSE t

\* request_inner_size on a window created with_min_inner_size: the size
\* the window takes is the requested one raised to the minimum on each axis
RequestInnerSize(size) ==
    <<IF size[1] < MinWindowSize[1] THEN MinWindowSize[1] ELSE size[1],
      IF size[2] < MinWindowSize[2] THEN MinWindowSize[2] ELSE size[2]>>

\* rotation = (rotation + 1) % 4; request_inner_size(height, width)
PlayRotate(s) ==
    [s EXCEPT !.rot = (s.rot + 1) % 4,
              !.size = RequestInnerSize(<<s.size[2], s.size[1]>>)]

AnimateClicked(s) == [s EXCEPT !.active = Toggle(s.active, "Bounce")]

StopAnimations(s) ==
    [s EXCEPT !.active = "None",
              !.alpha = OpaqueAlpha,
              !.pos = IF s.base # NoPos THEN s.base ELSE s.pos,
              !.base = NoPos]

\* Actions that leave the animation state alone (theme, zoom, panel, ...)
\* are the action "none".
UiActions == {"none", "PlayBounce", "PlayShake", "PlayDance", "PlayRotate",
              "PlayDissolve", "PlayFly"}
HandlerOnlyActions == {"AnimateClicked", "StopAnimations"}

HandleAction(action, s, pos_ok) ==
    CASE action = "PlayBounce"     -> PlayToggle(s, "Bounce", pos_ok)
      [] action = "PlayShake"      -> PlayToggle(s, "Shake", pos_ok)
      [] action = "PlayDance"      -> PlayToggle(s, "Dance", pos_ok)
      [] action = "PlayRotate"     -> PlayRotate(s)
      [] action = "PlayDissolve"   -> PlayDissolve(s, pos_ok)
      [] action = "PlayFly"        -> PlayToggle(s, "Fly", pos_ok)
      [] action = "AnimateClicked" -> AnimateClicked(s)
      [] action = "StopAnimations" -> StopAnimations(s)
      [] OTHER                     -> s

\* ---------------------------------------------------------------------------
\* Window animation engine (render, main.rs 3683-3817)
\* ---------------------------------------------------------------------------
\* One axis of the Bounce step: <<new position, new velocity>>
\* a far edge that turns the velocity without clamping the position
BounceAxisNoClamp(p, v, extent, limit) ==
    LET n == p + v
    IN  IF n < 0 THEN <<0, -v>>
        ELSE IF n + extent > limit THEN <<n, -v>>
        ELSE <<n, v>>

\* a far edge that clamps the position without turning the velocity
BounceAxisKeepVelocity(p, v, extent, limit) ==
    LET n == p + v
    IN  IF n < 0 THEN <<0, -v>>
        ELSE IF n + extent > limit THEN <<limit - extent, v>>
        ELSE <<n, v>>

BounceAxis(p, v, extent, limit) ==
    LET n == p + v
    IN  IF n < 0 THEN <<0, -v>>
        ELSE IF n + extent > limit THEN <<limit - extent, -v>>
        ELSE <<n, v>>

BounceStep(s, mon) ==
    LET ax == BounceAxis(s.pos[1], s.vx, s.size[1], mon[1])
        ay == BounceAxis(s.pos[2], s.vy, s.size[2], mon[2])
    IN  [s EXCEPT !.pos = <<ax[1], ay[1]>>, !.vx = ax[2], !.vy = ay[2],
                  !.base = <<ax[1], ay[1]>>]

ShakeStep(s) ==
    [s EXCEPT !.pos = <<s.base[1] + ShakeOffsetX[s.progress],
                        s.base[2] + ShakeOffsetY[s.progress]>>]

DanceStep(s) ==
    [s EXCEPT !.pos = <<s.base[1] + DanceOffsetX[s.progress],
                        s.base[2] + DanceOffsetY[s.progress]>>]

\* The pushed PlayRotate lands in `actions` after the dispatch loop of the
\* frame has run, and the vector is dropped at the end of the frame.
RotateStep(s) ==
    IF s.progress >= RotateThreshold THEN [s EXCEPT !.progress = 0] ELSE s

\* an opacity of 0.6 * cos().abs(), without the floor of 0.4
DissolveStepNoFloor(s) ==
    [s EXCEPT !.alpha = DissolveAlpha[s.progress] - MinDissolveAlpha]

DissolveStep(s) == [s EXCEPT !.alpha = DissolveAlpha[s.progress]]

FlyStep(s, mon) ==
    LET nx == s.pos[1] + FlySpeed
        x  == IF nx > mon[1] THEN -(s.size[1]) ELSE nx
    IN  [s EXCEPT !.pos = <<x, (mon[2] + FlyTwiceOffsetY[s.progress]) \div 2>>]

\* a match whose Fly arm also runs the Bounce arm
AnimationStepFallThrough(s, mon) ==
    CASE s.active = "Bounce"   -> BounceStep(s, mon)
      [] s.active = "Shake"    -> ShakeStep(s)
      [] s.active = "Dance"    -> DanceStep(s)
      [] s.active = "Rotate"   -> RotateStep(s)
      [] s.active = "Dissolve" -> DissolveStep(s)
      [] s.active = "Fly"      -> FlyStep(BounceStep(s, mon), mon)
      [] OTHER                 -> s

AnimationStep(s, mon) ==
    CASE s.active = "Bounce"   -> BounceStep(s, mon)
      [] s.active = "Shake"    -> ShakeStep(s)
      [] s.active = "Dance"    -> DanceStep(s)
      [] s.active = "Rotate"   -> RotateStep(s)
      [] s.active = "Dissolve" -> DissolveStep(s)
      [] s.active = "Fly"      -> FlyStep(s, mon)
      [] OTHER                 -> s

\* an idle branch that keeps base_pos
IdleStepKeepBase(s) ==
    IF s.base # NoPos
    THEN [s EXCEPT !.alpha = OpaqueAlpha, !.progress = 0]
    ELSE s

\* an idle branch that does not reset the alpha
IdleStepKeepAlpha(s) ==
    IF s.base # NoPos
    THEN [s EXCEPT !.pos = IF s.active \in {"Shake", "Dance"} THEN s.base ELSE s.pos,
                   !.base = NoPos,
                   !.progress = 0]
    ELSE s

\* The branch taken when no animation is active.  The position is restored
\* only under matches!(active_animation, Shake | Dance), tested inside the
\* branch where active_animation is None.
IdleStep(s) ==
    IF s.base # NoPos
    THEN [s EXCEPT !.alpha = OpaqueAlpha,
                   !.pos = IF s.active \in {"Shake", "Dance"} THEN s.base ELSE s.pos,
                   !.base = NoPos,
                   !.progress = 0]
    ELSE s

\* an engine that advances the progress before it reads the geometry
EngineAdvanceOnFailure(s, pos_ok, mon_ok, mon) ==
    IF s.active # "None"
    THEN LET p == [s EXCEPT !.progress = s.progress + 1]
         IN  IF pos_ok /\ mon_ok
             THEN AnimationStep(IF p.base = NoPos THEN [p EXCEPT !.base = p.pos] ELSE p,
                                mon)
             ELSE p
    ELSE IdleStep(s)

Engine(s, pos_ok, mon_ok, mon) ==
    IF s.active # "None"
    THEN IF pos_ok /\ mon_ok
         THEN LET p == [s EXCEPT !.progress = s.progress + 1]
                  b == IF p.base = NoPos THEN [p EXCEPT !.base = p.pos] ELSE p
              IN  AnimationStep(b, mon)
         ELSE s
    ELSE IdleStep(s)

\* ---------------------------------------------------------------------------
\* Quotes, rotation timer and settings (AppState, main.rs 543-604)
\* ---------------------------------------------------------------------------
DefaultSub   == "Keep pushing"
DefaultTheme == "theme_default"
DefaultStyle == "style_default"
Themes == {DefaultTheme, "theme_solid"}
Styles == {DefaultStyle, "style_large"}
Texts  == {"a", "b"}

Quote(m, sb) == [main_text |-> m, sub_text |-> sb]

\* The ten built-in quotes of AppState::default
DefaultMain   == <<"q1", "q2", "q3", "q4", "q5", "q6", "q7", "q8", "q9", "q10">>
DefaultQuotes == [i \in 1..Len(DefaultMain) |-> Quote(DefaultMain[i], DefaultSub)]

\* The quote part of the state as a record (with the settings file, which
\* save() overwrites).
PanelState == [quotes |-> quotes, idx |-> current_quote_index,
               interval |-> rotation_interval, last |-> last_rotation,
               enabled |-> rotation_enabled, secs |-> interval_secs,
               theme |-> theme, style |-> text_style,
               main_in |-> main_text_input, sub_in |-> sub_text_input,
               pending |-> confirm_clear_pending, file |-> settings_file]

\* Duration::from_secs
DurationFromSecs(secs) == secs * 1000

\* AppState::save builds the AppConfig from interval_secs (not from
\* rotation_interval) and AppConfig::save overwrites settings.json.
AppConfigOf(q) == [present |-> TRUE, quotes |-> q.quotes,
                   interval_secs |-> q.secs, theme |-> q.theme,
                   text_style |-> q.style]

Save(q) == [q EXCEPT !.file = AppConfigOf(q)]

\* AppState::default: the quote fields after AppConfig::load
LoadedState(file, t) ==
    IF file.present
    THEN [quotes |-> file.quotes, idx |-> 0,
          interval |-> DurationFromSecs(file.interval_secs), last |-> t,
          enabled |-> TRUE, secs |-> file.interval_secs,
          theme |-> file.theme, style |-> file.text_style,
          main_in |-> "", sub_in |-> "", pending |-> FALSE, file |-> file]
    ELSE [quotes |-> DefaultQuotes, idx |-> 0,
          interval |-> DurationFromSecs(DefaultIntervalSecs), last |-> t,
          enabled |-> TRUE, secs |-> DefaultIntervalSecs,
          theme |-> DefaultTheme, style |-> DefaultStyle,
          main_in |-> "", sub_in |-> "", pending |-> FALSE, file |-> file]

next_quote(q, t) ==
    IF Len(q.quotes) # 0
    THEN [q EXCEPT !.idx = (q.idx + 1) % Len(q.quotes), !.last = t]
    ELSE q

\* a previous that stops at the first quote instead of wrapping
prev_quote_saturating(q, t) ==
    IF Len(q.quotes) # 0
    THEN [q EXCEPT !.idx = IF q.idx = 0 THEN 0 ELSE q.idx - 1, !.last = t]
    ELSE q

prev_quote(q, t) ==
    IF Len(q.quotes) # 0
    THEN [q EXCEPT !.idx = IF q.idx = 0 THEN Len(q.quotes) - 1 ELSE q.idx - 1,
                   !.last = t]
    ELSE q

\* an add that appends and saves without selecting the new entry
add_quote_no_select(q, m, sb) ==
    LET sub == IF sb = "" THEN DefaultSub ELSE sb
    IN  Save([q EXCEPT !.quotes = Append(q.quotes, Quote(m, sub))])

add_quote(q, m, sb) ==
    LET sub == IF sb = "" THEN DefaultSub ELSE sb
        qs  == Append(q.quotes, Quote(m, sub))
    IN  Save([q EXCEPT !.quotes = qs, !.idx = Len(qs) - 1])

\* Vec::remove at a 0-based index
Remove(qs, index) ==
    [i \in 1..(Len(qs) - 1) |-> IF i <= index THEN qs[i] ELSE qs[i + 1]]

\* a clamp that misses the index equal to the new length
ClampIndexOffByOne(idx, len) == IF idx > len /\ len # 0 THEN len - 1 ELSE idx

ClampIndex(idx, len) == IF idx >= len /\ len # 0 THEN len - 1 ELSE idx

\* a delete that removes the row and leaves the index alone
delete_quote_no_clamp(q, index) ==
    IF index < Len(q.quotes)
    THEN Save([q EXCEPT !.quotes = Remove(q.quotes, index)])
    ELSE q

delete_quote(q, index) ==
    IF index < Len(q.quotes)
    THEN LET qs == Remove(q.quotes, index)
         IN  Save([q EXCEPT !.quotes = qs, !.idx = ClampIndex(q.idx, Len(qs))])
    ELSE q

\* if rotation_enabled && last_rotation.elapsed() >= rotation_interval
\*    && !quotes.is_empty() { next_quote() }           (main.rs 3819-3824)
\* an advance that waits for more than the interval
AutoAdvanceStrict(q, t) ==
    IF q.enabled /\ t - q.last > q.interval /\ Len(q.quotes) # 0
    THEN next_quote(q, t)
    ELSE q

\* an advance without the test for an empty list, which restarts the timer
AutoAdvanceOnEmpty(q, t) ==
    IF q.enabled /\ t - q.last >= q.interval
    THEN IF Len(q.quotes) # 0 THEN next_quote(q, t) ELSE [q EXCEPT !.last = t]
    ELSE q

AutoAdvance(q, t) ==
    IF q.enabled /\ t - q.last >= q.interval /\ Len(q.quotes) # 0
    THEN next_quote(q, t)
    ELSE q

Clamp(v, lo, hi) == IF v < lo THEN lo ELSE IF v > hi THEN hi ELSE v

\* ---------------------------------------------------------------------------
\* Control panel and main canvas operations of one frame
\* (render_main_content / render_control_panel_contents, main.rs 1150-2300;
\*  render_theme_modal, main.rs 2410-2672)
\* ---------------------------------------------------------------------------
Op(name, i, v) == [op |-> name, idx |-> i, val |-> v]
NoOp == Op("none", 0, "")

\* Live preview: the canvas shows the input fields instead of the quote
IsPreview(q) == q.main_in # "" \/ q.sub_in # ""

\* Double click on the displayed quote: edit and remove (main.rs 1468-1476)
EditRemove(q) ==
    LET cur == q.quotes[q.idx + 1]
        e   == [q EXCEPT !.main_in = cur.main_text, !.sub_in = cur.sub_text,
                         !.enabled = FALSE]
    IN  Save(delete_quote(e, e.idx))

\* "+ Add Text" (main.rs 1905-1919)
AddText(q) ==
    IF q.main_in # ""
    THEN [Save(add_quote(q, q.main_in, q.sub_in)) EXCEPT !.main_in = "", !.sub_in = ""]
    ELSE q

\* "Set Interval" (main.rs 2038-2054)
SetInterval(q, t) ==
    LET clamped == Clamp(q.secs, MinIntervalSecs, MaxIntervalSecs)
    IN  Save([q EXCEPT !.secs = clamped, !.interval = DurationFromSecs(clamped),
                       !.last = t])

\* egui::DragValue::new(&mut state.interval_secs).range(1..=60): in a frame
\* that shows and uses the field, the value bound to it is kept in its range
\* (main.rs 2023-2027)
DragValueRange(q) ==
    [q EXCEPT !.secs = Clamp(q.secs, MinIntervalSecs, MaxIntervalSecs)]

\* Enter in the interval field (main.rs 2028-2032)
EnterInterval(q, t) ==
    LET c == DragValueRange(q)
    IN  Save([c EXCEPT !.interval = DurationFromSecs(c.secs), !.last = t])

\* Pause / resume rotation (main.rs 2066-2078)
ToggleRotation(q, t) ==
    IF q.enabled THEN [q EXCEPT !.enabled = FALSE]
    ELSE [q EXCEPT !.enabled = TRUE, !.last = t]

\* to_delete / to_select of the text list (main.rs 2254-2261)
DeleteRow(q, index) == Save(delete_quote(q, index))
SelectRow(q, index, t) == [q EXCEPT !.idx = index, !.last = t]

\* "Yes, Clear" (main.rs 2286-2294)
ClearAll(q) ==
    Save([q EXCEPT !.quotes = <<>>, !.idx = 0, !.pending = FALSE])

\* The guard is what makes the widget of the operation exist in the frame.
PanelEnabled(o, q) ==
    CASE o.op = "edit_remove"  -> ~IsPreview(q) /\ q.idx < Len(q.quotes)
      [] o.op = "delete"       -> o.idx < Len(q.quotes)
      [] o.op = "select"       -> o.idx < Len(q.quotes)
      [] o.op = "clear_all"    -> ~q.pending
      [] o.op = "clear_yes"    -> q.pending
      [] o.op = "clear_cancel" -> q.pending
      [] OTHER                 -> TRUE

PanelOp(o, q, t) ==
    CASE o.op = "prev"            -> prev_quote(q, t)
      [] o.op = "next"            -> next_quote(q, t)
      [] o.op = "type_main"       -> [q EXCEPT !.main_in = o.val]
      [] o.op = "type_sub"        -> [q EXCEPT !.sub_in = o.val]
      [] o.op = "add"             -> AddText(q)
      [] o.op = "edit_remove"     -> EditRemove(q)
      [] o.op = "delete"          -> DeleteRow(q, o.idx)
      [] o.op = "select"          -> SelectRow(q, o.idx, t)
      [] o.op = "clear_all"       -> [q EXCEPT !.pending = TRUE]
      [] o.op = "clear_yes"       -> ClearAll(q)
      [] o.op = "clear_cancel"    -> [q EXCEPT !.pending = FALSE]
      [] o.op = "drag_interval"   -> [q EXCEPT !.secs = Clamp(o.idx, MinIntervalSecs, MaxIntervalSecs)]
      [] o.op = "set_interval"    -> SetInterval(q, t)
      [] o.op = "enter_interval"  -> EnterInterval(q, t)
      [] o.op = "toggle_rotation" -> ToggleRotation(q, t)
      [] o.op = "theme_set"       -> Save([q EXCEPT !.theme = o.val])
      [] o.op = "theme_reset"     -> [q EXCEPT !.theme = DefaultTheme]
      [] o.op = "style_set"       -> Save([q EXCEPT !.style = o.val])
      [] OTHER                    -> q

\* ---------------------------------------------------------------------------
\* One rendered frame (AppRunner::render, main.rs 3249-3941), d ms after the
\* previous one: title bar action, animation engine, automatic quote
\* rotation, then the panel operation.
\* ---------------------------------------------------------------------------
FrameAnim(action, pos_ok, mon_ok) ==
    Engine(HandleAction(action, AnimState, pos_ok), pos_ok, mon_ok, monitor_size)

FramePanel(o, t) == PanelOp(o, AutoAdvance(PanelState, t), t)

RenderApp(action, pos_ok, mon_ok, o, d, limit) ==
    /\ now + d <= limit
    /\ PanelEnabled(o, AutoAdvance(PanelState, now + d))
    /\ LET a == FrameAnim(action, pos_ok, mon_ok)
           q == FramePanel(o, now + d)
       IN  /\ active_animation' = a.active
           /\ anim_progress' = a.progress
           /\ bounce_vel_x' = a.vx
           /\ bounce_vel_y' = a.vy
           /\ base_pos' = a.base
           /\ rotation' = a.rot
           /\ win_pos' = a.pos
           /\ win_size' = a.size
           /\ win_alpha' = a.alpha
           /\ quotes' = q.quotes
           /\ current_quote_index' = q.idx
           /\ rotation_interval' = q.interval
           /\ last_rotation' = q.last
           /\ rotation_enabled' = q.enabled
           /\ interval_secs' = q.secs
           /\ theme' = q.theme
           /\ text_style' = q.style
           /\ main_text_input' = q.main_in
           /\ sub_text_input' = q.sub_in
           /\ confirm_clear_pending' = q.pending
           /\ settings_file' = q.file
    /\ rotation_prop' = IF action = "PlayRotate"
                        THEN FrameAnim(action, pos_ok, mon_ok).rot
                        ELSE rotation_prop
    /\ main_minimized' = (main_minimized \/ action = "MinimizeClicked")
    /\ now' = now + d
    /\ UNCHANGED <<monitor_size, frame_ms, launches, helperVars, demoVars>>

\* A frame without a click on the 3D background button
Render(action, pos_ok, mon_ok, o, d, limit) ==
    /\ RenderApp(action, pos_ok, mon_ok, o, d, limit)
    /\ UNCHANGED bgVars

\* ---------------------------------------------------------------------------
\* The 3D background helper process (TitleBarAction::ToggleBg, main.rs
\* 3407-3505; impl Drop for AppState, main.rs 534-541)
\* ---------------------------------------------------------------------------
NoChild == 0

\* if let Some(mut child) = bg_process.take() { child.kill(); child.wait(); }
Drop(child, procs) == IF child # NoChild THEN procs \ {child} ELSE procs

\* The bg fields as a record
BgState == [active |-> is_3d_bg_active, child |-> bg_process,
            procs |-> helper_procs, spawned |-> spawned]

ToggleBg(b, spawn_ok) ==
    LET t == [b EXCEPT !.active = ~b.active]
    IN  IF t.active
        THEN IF t.child = NoChild /\ spawn_ok
             THEN [t EXCEPT !.child = t.spawned + 1,
                            !.procs = t.procs \cup {t.spawned + 1},
                            !.spawned = t.spawned + 1]
             ELSE t
        ELSE [t EXCEPT !.child = NoChild, !.procs = Drop(t.child, t.procs)]

\* The other two programs of the repository, not started
HelperNotStarted ==
    /\ tracking = [pid |-> NoChild, hwnd |-> 0, frames |-> 0]
    /\ helper_visible = FALSE
    /\ camera_rotation = 0

DemoNotStarted ==
    /\ angle = 0
    /\ bounce_x = 0
    /\ bounce_y = 0
    /\ vel_x = 0
    /\ vel_y = 0
    /\ rotating = FALSE
    /\ bouncing = FALSE
    /\ screen_w = 0
    /\ screen_h = 0

\* Space key pressed (AppRunner::window_event, main.rs 3181-3207)
SpaceKey ==
    /\ active_animation' = "None"
    /\ win_alpha' = OpaqueAlpha
    /\ UNCHANGED <<anim_progress, bounce_vel_x, bounce_vel_y, base_pos, rotation,
                   win_pos, win_size, monitor_size, quoteVars, envVars, bgVars,
                   mainWinVars, helperVars, demoVars>>

\* Application start: AppState::default() and a fresh window
StartApp(file, t, pos, size, mon) ==
    LET q == LoadedState(file, t)
    IN  /\ active_animation = "None"
        /\ anim_progress = 0
        /\ bounce_vel_x = InitBounceVelX
        /\ bounce_vel_y = InitBounceVelY
        /\ base_pos = NoPos
        /\ rotation = 0
        /\ win_pos = pos
        /\ win_size = size
        /\ win_alpha = OpaqueAlpha
        /\ monitor_size = mon
        /\ quotes = q.quotes
        /\ current_quote_index = q.idx
        /\ rotation_interval = q.interval
        /\ last_rotation = q.last
        /\ rotation_enabled = q.enabled
        /\ interval_secs = q.secs
        /\ theme = q.theme
        /\ text_style = q.style
        /\ main_text_input = q.main_in
        /\ sub_text_input = q.sub_in
        /\ confirm_clear_pending = q.pending
        /\ settings_file = q.file
        /\ now = t
        /\ is_3d_bg_active = FALSE
        /\ bg_process = NoChild
        /\ helper_procs = {}
        /\ spawned = 0
        /\ app_dropped = FALSE
        /\ rotation_prop = 0
        /\ main_minimized = FALSE
        /\ HelperNotStarted

\* The application is started and the WinAPI demo is not
Start(file, t, pos, size, mon) ==
    /\ StartApp(file, t, pos, size, mon)
    /\ DemoNotStarted

\* ---------------------------------------------------------------------------
\* Specification of the window animations: the application started without a
\* settings file, frames at the active frame period, title bar triggers and
\* the Space key.
\* ---------------------------------------------------------------------------
StartPositions == {<<2, 3>>}
WindowSizes    == {<<12, 8>>, <<36, 27>>}
Monitors       == {<<40, 30>>}

Init ==
    /\ \E pos \in StartPositions, size \in WindowSizes, mon \in Monitors :
            Start(NoFile, 0, pos, size, mon)
    /\ frame_ms = ActiveFrameMs
    /\ launches = 1

\* A frame without a click on the title bar
AnimFrame ==
    \E pos_ok \in BOOLEAN, mon_ok \in BOOLEAN :
        Render("none", pos_ok, mon_ok, NoOp, ActiveFrameMs, MaxNow)

\* A frame in which one animation button of the title bar is clicked
TriggerFrame ==
    \E action \in UiActions \ {"none"}, pos_ok \in BOOLEAN, mon_ok \in BOOLEAN :
        Render(action, pos_ok, mon_ok, NoOp, ActiveFrameMs, MaxNow)

Next == AnimFrame \/ TriggerFrame \/ SpaceKey

Spec == Init /\ [][Next]_vars

\* The same, with the two actions that have a handler in render but no
\* widget in render_title_bar.
HandlerFrame ==
    \E action \in HandlerOnlyActions, pos_ok \in BOOLEAN, mon_ok \in BOOLEAN :
        Render(action, pos_ok, mon_ok, NoOp, ActiveFrameMs, MaxNow)

NextDispatch == AnimFrame \/ TriggerFrame \/ HandlerFrame \/ SpaceKey

SpecDispatch == Init /\ [][NextDispatch]_vars

\* ---------------------------------------------------------------------------
\* Specification of the resizable window: as SpecDispatch, and the user
\* resizes the window (created with_resizable(true)) by its border to a size
\* that respects the minimum size.
\* ---------------------------------------------------------------------------
ResizedSizes == {<<12, 4>>}

\* WindowEvent::Resized: the handler resizes the render surface only
WindowResized ==
    /\ \E size \in ResizedSizes :
            /\ size = RequestInnerSize(size)
            /\ win_size' = size
    /\ UNCHANGED <<animVars, win_pos, win_alpha, monitor_size, quoteVars, envVars,
                   bgVars, mainWinVars, helperVars, demoVars>>

RotateTrigger == Render("PlayRotate", TRUE, TRUE, NoOp, ActiveFrameMs, MaxNow)

StopFrame == Render("StopAnimations", TRUE, TRUE, NoOp, ActiveFrameMs, MaxNow)

NextResize ==
    WindowResized \/ RotateTrigger \/ StopFrame \/ AnimFrame \/ TriggerFrame
        \/ SpaceKey

SpecResize == Init /\ [][NextResize]_vars

\* ---------------------------------------------------------------------------
\* Specification of the Rotate scenario: the Rotate button is clicked in the
\* first frame and frames follow at the active frame period, with no
\* further input.
\* ---------------------------------------------------------------------------
RotateClick ==
    /\ now = 0
    /\ Render("PlayRotate", TRUE, TRUE, NoOp, ActiveFrameMs, MaxRotateNow)

RotateFrame ==
    /\ now > 0
    /\ Render("none", TRUE, TRUE, NoOp, ActiveFrameMs, MaxRotateNow)

NextRotate == RotateClick \/ RotateFrame

SpecRotate == Init /\ [][NextRotate]_vars

\* ---------------------------------------------------------------------------
\* Specification of the Dissolve scenario: the Dissolve button is clicked in
\* the first frame, frames follow at the active frame period, and a second
\* click on the button stops the animation.
\* ---------------------------------------------------------------------------
MaxDissolveNow == MaxDissolveFrames * ActiveFrameMs

DissolveClick ==
    /\ now = 0 \/ active_animation = "Dissolve"
    /\ Render("PlayDissolve", TRUE, TRUE, NoOp, ActiveFrameMs, MaxDissolveNow)

DissolveFrame ==
    /\ now > 0
    /\ Render("none", TRUE, TRUE, NoOp, ActiveFrameMs, MaxDissolveNow)

NextDissolve == DissolveClick \/ DissolveFrame

SpecDissolve == Init /\ [][NextDissolve]_vars

\* ---------------------------------------------------------------------------
\* Specification of the frame period: an animation button is clicked in the
\* first frame and frames follow at a fixed period, 16 ms while egui has
\* requested a repaint and 100 ms otherwise (about_to_wait, main.rs
\* 3233-3244), with no further input.
\* ---------------------------------------------------------------------------
MaxPaceNow == MaxPaceFrames * frame_ms

InitPace ==
    /\ \E pos \in StartPositions, size \in WindowSizes, mon \in Monitors :
            Start(NoFile, 0, pos, size, mon)
    /\ frame_ms \in FrameDeltas
    /\ launches = 1

PaceClick ==
    /\ now = 0
    /\ \E action \in UiActions \ {"none", "PlayRotate"} :
            Render(action, TRUE, TRUE, NoOp, frame_ms, MaxPaceNow)

PaceFrame ==
    /\ now > 0
    /\ Render("none", TRUE, TRUE, NoOp, frame_ms, MaxPaceNow)

NextPace == PaceClick \/ PaceFrame

SpecPace == InitPace /\ [][NextPace]_vars

\* ---------------------------------------------------------------------------
\* Specification of the quote list: the application started from a settings
\* file, one panel operation per frame.
\* ---------------------------------------------------------------------------
RECURSIVE QuoteLists(_)
QuoteLists(n) ==
    IF n = 0 THEN {<<>>}
    ELSE LET shorter == QuoteLists(n - 1)
         IN  shorter \cup {Append(l, Quote(m, DefaultSub)) :
                               l \in {x \in shorter : Len(x) = n - 1}, m \in Texts}

Config(qs, secs, th, st) ==
    [present |-> TRUE, quotes |-> qs, interval_secs |-> secs, theme |-> th,
     text_style |-> st]

InitPanel ==
    /\ \E qs \in QuoteLists(MaxQuotes) :
            Start(Config(qs, MinIntervalSecs, DefaultTheme, DefaultStyle), 0,
                  <<2, 3>>, <<12, 8>>, <<40, 30>>)
    /\ frame_ms = SlowFrameMs
    /\ launches = 1

PanelFrame(o) == Render("none", TRUE, TRUE, o, SlowFrameMs, MaxPanelNow)

IdleFrame   == PanelFrame(NoOp)
NavFrame    == \E name \in {"prev", "next"} : PanelFrame(Op(name, 0, ""))
SelectFrame == \E i \in 0..(Len(quotes) - 1) : PanelFrame(Op("select", i, ""))
DeleteFrame == \E i \in 0..(Len(quotes) - 1) : PanelFrame(Op("delete", i, ""))
TypeFrame   == \E m \in Texts \cup {""} : PanelFrame(Op("type_main", 0, m))
AddFrame    == Len(quotes) < MaxQuotes /\ main_text_input # ""
               /\ PanelFrame(Op("add", 0, ""))
EditRemoveFrame == PanelFrame(Op("edit_remove", 0, ""))
ClearFrame  == \E name \in {"clear_all", "clear_yes", "clear_cancel"} :
                   PanelFrame(Op(name, 0, ""))
ToggleFrame == PanelFrame(Op("toggle_rotation", 0, ""))

NextPanel ==
    \/ IdleFrame \/ NavFrame \/ SelectFrame \/ DeleteFrame \/ TypeFrame
    \/ AddFrame \/ EditRemoveFrame \/ ClearFrame \/ ToggleFrame

SpecPanel == InitPanel /\ [][NextPanel]_vars

\* ---------------------------------------------------------------------------
\* Specification of the quote navigation: PREV / NEXT, a click on a row of
\* the list, pause and resume, and the automatic advance, on quote lists
\* that include the empty one.
\* ---------------------------------------------------------------------------
NextNav == IdleFrame \/ NavFrame \/ SelectFrame \/ ToggleFrame

SpecNav == InitPanel /\ [][NextNav]_vars

\* ---------------------------------------------------------------------------
\* Specification of the quote list rows: the user selects and deletes rows
\* and steps through the quotes.
\* ---------------------------------------------------------------------------
NextRows == IdleFrame \/ NavFrame \/ SelectFrame \/ DeleteFrame

SpecRows == InitPanel /\ [][NextRows]_vars

\* ---------------------------------------------------------------------------
\* Specification of adding a text: the main and the supporting text are
\* typed into the two input fields and "+ Add Text" is clicked.
\* ---------------------------------------------------------------------------
InitAdd ==
    /\ \E qs \in QuoteLists(1) :
            Start(Config(qs, MinIntervalSecs, DefaultTheme, DefaultStyle), 0,
                  <<2, 3>>, <<12, 8>>, <<40, 30>>)
    /\ frame_ms = SlowFrameMs
    /\ launches = 1

TypeSubFrame == \E sb \in Texts \cup {""} : PanelFrame(Op("type_sub", 0, sb))

NextAdd == IdleFrame \/ TypeFrame \/ TypeSubFrame \/ AddFrame

SpecAdd == InitAdd /\ [][NextAdd]_vars

\* ---------------------------------------------------------------------------
\* Specification of the rotation timer: ten quotes, an interval of five
\* seconds, frames at a fixed period and no interaction.
\* ---------------------------------------------------------------------------
InitTimer ==
    /\ Start(Config(DefaultQuotes, 5, DefaultTheme, DefaultStyle),
             0, <<2, 3>>, <<12, 8>>, <<40, 30>>)
    /\ frame_ms \in FrameDeltas
    /\ launches = 1

TimerFrame == Render("none", TRUE, TRUE, NoOp, frame_ms, MaxTime)

NextTimer == TimerFrame

SpecTimer == InitTimer /\ [][NextTimer]_vars

\* ---------------------------------------------------------------------------
\* Specification of the settings file: edits that save, edits that do not,
\* and a restart of the application, which loads settings.json.
\* ---------------------------------------------------------------------------
IntervalInputs == {1, 2}

InitSettings ==
    /\ \E qs \in QuoteLists(1) :
            Start(Config(qs, MinIntervalSecs, DefaultTheme, DefaultStyle), 0,
                  <<2, 3>>, <<12, 8>>, <<40, 30>>)
    /\ frame_ms = SlowFrameMs
    /\ launches = 1

DragIntervalFrame == \E v \in IntervalInputs : PanelFrame(Op("drag_interval", v, ""))
SetIntervalFrame  == \E name \in {"set_interval", "enter_interval"} :
                         PanelFrame(Op(name, 0, ""))
ThemeFrame        == \E th \in Themes : PanelFrame(Op("theme_set", 0, th))
ThemeResetFrame   == PanelFrame(Op("theme_reset", 0, ""))
StyleFrame        == \E st \in Styles : PanelFrame(Op("style_set", 0, st))

\* The process exits and is started again: AppState::default() loads the file.
Restart ==
    /\ launches < MaxLaunches
    /\ launches' = launches + 1
    /\ LET q == LoadedState(settings_file, now)
       IN  /\ quotes' = q.quotes
           /\ current_quote_index' = q.idx
           /\ rotation_interval' = q.interval
           /\ last_rotation' = q.last
           /\ rotation_enabled' = q.enabled
           /\ interval_secs' = q.secs
           /\ theme' = q.theme
           /\ text_style' = q.style
           /\ main_text_input' = q.main_in
           /\ sub_text_input' = q.sub_in
           /\ confirm_clear_pending' = q.pending
    /\ active_animation' = "None"
    /\ anim_progress' = 0
    /\ bounce_vel_x' = InitBounceVelX
    /\ bounce_vel_y' = InitBounceVelY
    /\ base_pos' = NoPos
    /\ rotation' = 0
    /\ win_alpha' = OpaqueAlpha
    /\ is_3d_bg_active' = FALSE
    /\ bg_process' = NoChild
    /\ helper_procs' = Drop(bg_process, helper_procs)
    /\ UNCHANGED <<win_pos, win_size, monitor_size, now, frame_ms, settings_file,
                   spawned, app_dropped, mainWinVars, helperVars, demoVars>>

NextSettings ==
    \/ IdleFrame \/ DragIntervalFrame \/ SetIntervalFrame \/ ThemeFrame
    \/ ThemeResetFrame \/ StyleFrame \/ TypeFrame \/ AddFrame \/ DeleteFrame
    \/ Restart

SpecSettings == InitSettings /\ [][NextSettings]_vars

\* ---------------------------------------------------------------------------
\* Specification of the rotation interval: the application started from a
\* settings file whose interval_secs is any u64, values typed into the
\* interval field, Set Interval and Enter.
\* ---------------------------------------------------------------------------
FileIntervals  == {0, 1, 61}
TypedIntervals == {0, 2, 61}

InitInterval ==
    /\ \E qs \in QuoteLists(1), secs \in FileIntervals :
            Start(Config(qs, secs, DefaultTheme, DefaultStyle), 0,
                  <<2, 3>>, <<12, 8>>, <<40, 30>>)
    /\ frame_ms = SlowFrameMs
    /\ launches = 1

TypeIntervalFrame ==
    \E v \in TypedIntervals : PanelFrame(Op("drag_interval", v, ""))

NextInterval == IdleFrame \/ TypeIntervalFrame \/ SetIntervalFrame

SpecInterval == InitInterval /\ [][NextInterval]_vars

\* ---------------------------------------------------------------------------
\* Specification of the 3D background helper: the background button is
\* clicked, the spawn of the helper succeeds or fails, and the application
\* is shut down.
\* ---------------------------------------------------------------------------
MaxBgNow == MaxBgFrames * ActiveFrameMs

\* A frame in which the 3D background button is clicked
ToggleBgFrame ==
    /\ ~app_dropped
    /\ \E spawn_ok \in BOOLEAN :
          LET b == ToggleBg(BgState, spawn_ok)
          IN  /\ is_3d_bg_active' = b.active
              /\ bg_process' = b.child
              /\ helper_procs' = b.procs
              /\ spawned' = b.spawned
    /\ RenderApp("ToggleBg", TRUE, TRUE, NoOp, ActiveFrameMs, MaxBgNow)
    /\ UNCHANGED app_dropped

BgIdleFrame ==
    /\ ~app_dropped
    /\ Render("none", TRUE, TRUE, NoOp, ActiveFrameMs, MaxBgNow)

\* The event loop exits and the AppState is dropped
Shutdown ==
    /\ ~app_dropped
    /\ app_dropped' = TRUE
    /\ bg_process' = NoChild
    /\ helper_procs' = Drop(bg_process, helper_procs)
    /\ UNCHANGED <<is_3d_bg_active, spawned, animVars, winVars, quoteVars, envVars,
                   mainWinVars, helperVars, demoVars>>

NextBg == ToggleBgFrame \/ BgIdleFrame \/ Shutdown

SpecBg == Init /\ [][NextBg]_vars

\* ---------------------------------------------------------------------------
\* The helper program quantum_logo (background/src/main.rs), started by
\* ToggleBg with the handle of the main window as its sixth argument.  The
\* position and resolution of the helper window, which the sync system
\* copies from the main window, are not part of the state.
\* ---------------------------------------------------------------------------
MainHwnd   == 1

HelperState == [tracking |-> tracking, visible |-> helper_visible,
                camera |-> camera_rotation]

\* main: TrackingState { hwnd: target_hwnd, frames: 0 }, window visible: false,
\* camera looking along -Z with Y up.  camera is the angle of the rotation
\* about Z given to the camera, as the bits of the f32.
HelperMain(pid, target_hwnd) ==
    [tracking |-> [pid |-> pid, hwnd |-> target_hwnd, frames |-> 0],
     visible |-> FALSE, camera |-> 0]

\* f32::from_bits(prop_val.0 as u32): the value of the property becomes the
\* bit pattern of the angle (the values the application writes are below
\* 2^32, so the cast keeps them)
AngleFromProp(prop_val) == prop_val

\* The f32 patterns of a quarter, a half and three quarters of a turn in
\* radians (0x3FC90FDB, 0x40490FDB, 0x4096CBE4), the width of the fraction
\* field and the bias of the exponent field of an f32
QuarterTurnBits       == 1070141403
HalfTurnBits          == 1078530011
ThreeQuarterTurnBits  == 1083624420
F32FractionModulus    == 8388608
F32ExponentBias       == 127

\* The number of quarter turns that Quat::from_rotation_z(-angle) makes for
\* the f32 with these bits: 0 for an angle below 2^-20 radians (a biased
\* exponent below 107, which includes zero and the subnormals), 1, 2, 3 for
\* the f32 nearest to pi/2, pi and 3 pi/2, and -1 for any other angle.
QuarterTurns(bits) ==
    CASE bits = QuarterTurnBits      -> 1
      [] bits = HalfTurnBits         -> 2
      [] bits = ThreeQuarterTurnBits -> 3
      [] (bits \div F32FractionModulus) % 256 < F32ExponentBias - 20 -> 0
      [] OTHER -> -1

\* a sync that shows the window from the 5th frame on, minimized or not
sync_window_process_shown(h, is_minimized, prop_val) ==
    LET frames == h.tracking.frames + 1
        t == [h.tracking EXCEPT !.frames = frames]
    IN  [tracking |-> t,
         visible |-> IF frames >= 5 THEN TRUE ELSE h.visible,
         camera |-> IF prop_val # 0 \/ frames > 10
                    THEN AngleFromProp(prop_val)
                    ELSE h.camera]

\* sync_window_process: one Update of the helper (the u32 frame counter is
\* kept below MaxHelperFrames by the guard of SyncFrame)
sync_window_process(h, is_minimized, prop_val) ==
    LET frames == h.tracking.frames + 1
        t == [h.tracking EXCEPT !.frames = frames]
    IN  IF t.hwnd # 0
        THEN [tracking |-> t,
              visible |-> IF is_minimized THEN FALSE
                          ELSE IF frames >= 5 THEN TRUE
                          ELSE h.visible,
              camera |-> IF prop_val # 0 \/ frames > 10
                         THEN AngleFromProp(prop_val)
                         ELSE h.camera]
        ELSE [tracking |-> t,
              visible |-> IF frames = 5 THEN TRUE ELSE h.visible,
              camera |-> h.camera]

\* The spawned process runs main
HelperStart ==
    /\ bg_process # NoChild
    /\ tracking.pid # bg_process
    /\ LET h == HelperMain(bg_process, MainHwnd)
       IN  /\ tracking' = h.tracking
           /\ helper_visible' = h.visible
           /\ camera_rotation' = h.camera
    /\ UNCHANGED <<animVars, winVars, quoteVars, envVars, bgVars, mainWinVars,
                   demoVars>>

\* One frame of the helper while its process is alive
SyncFrame ==
    /\ tracking.pid \in helper_procs
    /\ tracking.frames < MaxHelperFrames
    /\ LET h == sync_window_process(HelperState, main_minimized, rotation_prop)
       IN  /\ tracking' = h.tracking
           /\ helper_visible' = h.visible
           /\ camera_rotation' = h.camera
    /\ UNCHANGED <<animVars, winVars, quoteVars, envVars, bgVars, mainWinVars,
                   demoVars>>

\* A frame of the main application with a click on the minimize button
MinimizeFrame ==
    /\ ~main_minimized
    /\ Render("MinimizeClicked", TRUE, TRUE, NoOp, ActiveFrameMs, MaxBgNow)

\* The user restores the minimized main window from the taskbar
MainRestored ==
    /\ main_minimized
    /\ main_minimized' = FALSE
    /\ UNCHANGED <<animVars, winVars, quoteVars, envVars, bgVars, rotation_prop,
                   helperVars, demoVars>>

\* A frame of the main application with a click on the Rotate button
HelperRotateFrame ==
    /\ ~main_minimized
    /\ Render("PlayRotate", TRUE, TRUE, NoOp, ActiveFrameMs, MaxBgNow)

\* A frame of the main application with a click on the 3D background button
HelperToggleFrame ==
    /\ ~main_minimized
    /\ ToggleBgFrame

NextHelper ==
    \/ HelperToggleFrame \/ HelperStart \/ SyncFrame \/ MinimizeFrame
    \/ MainRestored \/ HelperRotateFrame

SpecHelper == Init /\ [][NextHelper]_vars

\* ---------------------------------------------------------------------------
\* The WinAPI demo (RotateTest/src/main.rs): a window that rotates its text
\* and bounces on a 16 ms timer.  Positions and velocities are in half
\* pixels (vel_y is 3.5 pixels), the sizes of the window and of the screen
\* in pixels.
\* ---------------------------------------------------------------------------
DemoWinW   == 520
DemoWinH   == 300
DemoVelX   == 8
DemoVelY   == 7
AngleStep  == 2
FullTurn   == 360
DemoScreens == {<<520, 300>>, <<540, 312>>}

\* hw = (win_w / 2) as f64 and hh = (win_h / 2) as f64
DemoHalfW == 2 * (DemoWinW \div 2)
DemoHalfH == 2 * (DemoWinH \div 2)

DemoState == [angle |-> angle, bounce_x |-> bounce_x, bounce_y |-> bounce_y,
              vel_x |-> vel_x, vel_y |-> vel_y, rotating |-> rotating,
              bouncing |-> bouncing, screen_w |-> screen_w,
              screen_h |-> screen_h]

\* main: the AppState stored in STATE
DemoMain(scr) ==
    [angle |-> 0, bounce_x |-> 2 * (scr[1] \div 2), bounce_y |-> 2 * (scr[2] \div 2),
     vel_x |-> DemoVelX, vel_y |-> DemoVelY, rotating |-> FALSE,
     bouncing |-> FALSE, screen_w |-> scr[1], screen_h |-> scr[2]]

\* WM_KEYDOWN
WmKeyDown(s, key) ==
    CASE key = "R" -> [s EXCEPT !.rotating = ~s.rotating]
      [] key = "B" -> IF s.bouncing
                      THEN [s EXCEPT !.bouncing = FALSE]
                      ELSE [s EXCEPT !.bouncing = TRUE, !.vel_x = DemoVelX,
                                     !.vel_y = DemoVelY]
      [] OTHER -> s

\* One axis of the bounce of WM_TIMER: <<position, velocity>>
\* a bounce that turns the velocity without undoing the step
DemoAxisNoUndo(p, v, half, screen) ==
    LET n == p + v
    IN  IF n - half < 0 \/ n + half > 2 * screen THEN <<n, -v>> ELSE <<n, v>>

DemoAxis(p, v, half, screen) ==
    LET n == p + v
    IN  IF n - half < 0 \/ n + half > 2 * screen THEN <<n + (-v), -v>> ELSE <<n, v>>

\* WM_TIMER
WmTimer(s) ==
    LET r == IF s.rotating
             THEN [s EXCEPT !.angle = (s.angle + AngleStep) % FullTurn]
             ELSE s
        ax == DemoAxis(r.bounce_x, r.vel_x, DemoHalfW, r.screen_w)
        ay == DemoAxis(r.bounce_y, r.vel_y, DemoHalfH, r.screen_h)
    IN  IF r.bouncing
        THEN [r EXCEPT !.bounce_x = ax[1], !.vel_x = ax[2],
                       !.bounce_y = ay[1], !.vel_y = ay[2]]
        ELSE r

DemoStep(d) ==
    /\ angle' = d.angle
    /\ bounce_x' = d.bounce_x
    /\ bounce_y' = d.bounce_y
    /\ vel_x' = d.vel_x
    /\ vel_y' = d.vel_y
    /\ rotating' = d.rotating
    /\ bouncing' = d.bouncing
    /\ screen_w' = d.screen_w
    /\ screen_h' = d.screen_h
    /\ UNCHANGED <<animVars, winVars, quoteVars, envVars, bgVars, mainWinVars,
                   helperVars>>

DemoKey   == \E key \in {"R", "B"} : DemoStep(WmKeyDown(DemoState, key))
DemoTimer == DemoStep(WmTimer(DemoState))

InitDemo ==
    /\ StartApp(NoFile, 0, <<2, 3>>, <<12, 8>>, <<40, 30>>)
    /\ frame_ms = ActiveFrameMs
    /\ launches = 1
    /\ \E scr \in DemoScreens :
          LET d == DemoMain(scr)
          IN  /\ angle = d.angle
              /\ bounce_x = d.bounce_x
              /\ bounce_y = d.bounce_y
              /\ vel_x = d.vel_x
              /\ vel_y = d.vel_y
              /\ rotating = d.rotating
              /\ bouncing = d.bouncing
              /\ screen_w = d.screen_w
              /\ screen_h = d.screen_h

NextDemo == DemoKey \/ DemoTimer

SpecDemo == InitDemo /\ [][NextDemo]_vars

TypeOK ==
    /\ active_animation \in AppAnimation
    /\ anim_progress \in Nat
    /\ rotation \in 0..3
    /\ win_alpha \in 0..255

\* ---------------------------------------------------------------------------
\* Properties
\* ---------------------------------------------------------------------------
Anims == AppAnimation \ {"None"}
PlayOf(x) == CASE x = "Bounce"   -> "PlayBounce"
               [] x = "Shake"    -> "PlayShake"
               [] x = "Dance"    -> "PlayDance"
               [] x = "Rotate"   -> "PlayRotate"
               [] x = "Dissolve" -> "PlayDissolve"
               [] x = "Fly"      -> "PlayFly"

\* the step is a frame in which the given title bar action is dispatched
AnimFrameWith(action) ==
    \E pos_ok \in BOOLEAN, mon_ok \in BOOLEAN :
        Render(action, pos_ok, mon_ok, NoOp, ActiveFrameMs, MaxNow)

Fits == win_size[1] <= monitor_size[1] /\ win_size[2] <= monitor_size[2]

\* C1: the active animation is always one value of AppAnimation, and every
\* step changes the window only by the update rule of the animation that is
\* active in it: the bounce velocity changes only under Bounce, the alpha
\* leaves a value only for opaque or under Dissolve (to the Dissolve value),
\* the position moves only under Bounce, Shake, Dance or Fly (or back to
\* base_pos on a stop), and under Shake and Dance it is base_pos plus that
\* animation's own offset.
C1_MutualExclusion ==
    [][ /\ active_animation' \in AppAnimation
        /\ (bounce_vel_x' # bounce_vel_x \/ bounce_vel_y' # bounce_vel_y)
               => active_animation' = "Bounce"
        /\ win_alpha' # win_alpha
               => \/ win_alpha' = OpaqueAlpha
                  \/ /\ active_animation' = "Dissolve"
                     /\ win_alpha' = DissolveAlpha[anim_progress']
        /\ win_pos' # win_pos
               => \/ active_animation' \in {"Bounce", "Fly"}
                  \/ /\ active_animation' = "Shake"
                     /\ win_pos' = <<base_pos'[1] + ShakeOffsetX[anim_progress'],
                                     base_pos'[2] + ShakeOffsetY[anim_progress']>>
                  \/ /\ active_animation' = "Dance"
                     /\ win_pos' = <<base_pos'[1] + DanceOffsetX[anim_progress'],
                                     base_pos'[2] + DanceOffsetY[anim_progress']>>
                  \/ /\ active_animation' = "None"
                     /\ win_pos' = base_pos
      ]_vars

\* Dissolve has replaced a Bounce that had already hit an edge, and has
\* faded the window
C1_Witness ==
    /\ active_animation = "Dissolve"
    /\ win_alpha = DissolveAlpha[2]
    /\ bounce_vel_x = -InitBounceVelX

\* C2: for each animation X, the trigger of X makes X active when no
\* animation is active, and makes none active when X is active.
C2_TriggerToggles ==
    [][ \A x \in Anims :
          AnimFrameWith(PlayOf(x)) =>
              /\ active_animation = "None" => active_animation' = x
              /\ active_animation = x => active_animation' = "None"
      ]_vars

\* C3: when Shake or Dance is stopped, by its own trigger or by the Space
\* key followed by a frame, the window is put back at base_pos.
C3_ShakeDanceRestore ==
    [][ /\ \A x \in {"Shake", "Dance"} :
              (active_animation = x /\ base_pos # NoPos /\ AnimFrameWith(PlayOf(x)))
                  => win_pos' = base_pos
        /\ ( /\ active_animation = "None"
             /\ base_pos # NoPos
             /\ anim_progress >= 1
             /\ win_pos \in
                   {<<base_pos[1] + ShakeOffsetX[anim_progress],
                      base_pos[2] + ShakeOffsetY[anim_progress]>>,
                    <<base_pos[1] + DanceOffsetX[anim_progress],
                      base_pos[2] + DanceOffsetY[anim_progress]>>}
             /\ AnimFrameWith("none") )
                  => win_pos' = base_pos
      ]_vars

\* the step is a frame whose engine ran the Bounce rule
BounceFrameStep ==
    /\ now' # now
    /\ active_animation' = "Bounce"
    /\ anim_progress' = anim_progress + 1

InRangeX(x) == 0 <= x /\ x <= monitor_size'[1] - win_size'[1]
InRangeY(y) == 0 <= y /\ y <= monitor_size'[2] - win_size'[2]

\* C4 (as claimed): after every Bounce frame the applied position is within
\* [0, monitor_w - window_w] x [0, monitor_h - window_h], for all sizes.
C4_BounceContained ==
    [][ BounceFrameStep => InRangeX(win_pos'[1]) /\ InRangeY(win_pos'[2]) ]_vars

\* C4 (amended): after every Bounce frame, x is within [0, monitor_w -
\* window_w] if the window is not wider than the monitor, and y is within
\* [0, monitor_h - window_h] if the window is not taller than the monitor.
C4_BounceContainedIfFits ==
    [][ BounceFrameStep =>
          /\ win_size'[1] <= monitor_size'[1] => InRangeX(win_pos'[1])
          /\ win_size'[2] <= monitor_size'[2] => InRangeY(win_pos'[2])
      ]_vars

\* Bounce has hit the right and the bottom edge of a monitor the window
\* fits in
C4_Witness ==
    /\ active_animation = "Bounce"
    /\ Fits
    /\ bounce_vel_x < 0
    /\ bounce_vel_y < 0
    /\ win_pos = <<monitor_size[1] - win_size[1], monitor_size[2] - win_size[2]>>

\* C5: after the Rotate click of the first frame, rotation stays 1 until
\* 2.5 s of progress have accumulated and is 2, with width and height swapped
\* back, from the frame after that.
C5_RotatePeriodic ==
    /\ (0 < now /\ now < RotateThreshold * ActiveFrameMs) => rotation = 1
    /\ ( /\ now >= (RotateThreshold + 1) * ActiveFrameMs
         /\ now < 2 * RotateThreshold * ActiveFrameMs )
            => (rotation = 2 /\ win_size \in WindowSizes)

\* C6: the index is below the length of a non-empty quote list.
C6_IndexInRange ==
    Len(quotes) # 0 => current_quote_index < Len(quotes)

\* the displayed last quote of a list of three was taken out by a double
\* click, and the index was moved to the new last entry
C6_Witness ==
    /\ Len(quotes) = 2
    /\ current_quote_index = 1
    /\ ~rotation_enabled
    /\ main_text_input # ""
    /\ settings_file.quotes = quotes

\* frames between the automatic advances of a run with a fixed frame period:
\* the interval rounded up to whole frames
FramesPerAdvance == (rotation_interval + frame_ms - 1) \div frame_ms

\* C7 (as claimed): after T seconds of frames the index is
\* floor(T / I) mod n.
C7_IndexIsFloor ==
    current_quote_index = (now \div rotation_interval) % Len(quotes)

\* C7 (amended): with frames every d, the index after T is
\* floor(T / (ceil(I / d) * d)) mod n; with I = 5 s, n = 10 and d = 16 ms or
\* 100 ms the index is 9 at T = 47 s.
C7_IndexByFramePeriod ==
    /\ current_quote_index
          = (now \div (FramesPerAdvance * frame_ms)) % Len(quotes)
    /\ (47000 <= now /\ now < 47000 + frame_ms) => current_quote_index = 9

\* 47 s into the run at 16 ms per frame
C7_Witness ==
    /\ frame_ms = ActiveFrameMs
    /\ now >= 47000
    /\ current_quote_index = 9
    /\ last_rotation = 9 * 5008

\* the step is a frame with the given panel operation
PanelFrameWith(o) == Render("none", TRUE, TRUE, o, SlowFrameMs, MaxPanelNow)

\* C8: a delete of the last row while the index is on it moves the index to
\* the new last row, or leaves it 0 if the list becomes empty; after any
\* delete the index is below the length of a non-empty list.
C8_DeleteClamp ==
    [][ \A i \in 0..MaxQuotes :
          PanelFrameWith(Op("delete", i, "")) =>
              LET q == AutoAdvance(PanelState, now + SlowFrameMs)
                  n == Len(q.quotes)
              IN  /\ Len(quotes') = n - 1
                  /\ (i = n - 1 /\ q.idx = n - 1)
                        => current_quote_index' = IF n = 1 THEN 0 ELSE n - 2
                  /\ Len(quotes') # 0 => current_quote_index' < Len(quotes')
      ]_vars

\* the only quote was deleted and the list, written to the file, is empty
C8_Witness ==
    /\ quotes = <<>>
    /\ current_quote_index = 0
    /\ ~confirm_clear_pending
    /\ now = SlowFrameMs
    /\ settings_file.quotes = <<>>

\* the four persisted fields as the application uses them
InUse(qs, interval, th, st) ==
    [quotes |-> qs, interval |-> interval, theme |-> th, style |-> st]

\* C9: whenever the settings file is written, loading it yields the quotes,
\* the rotation interval, the theme and the text style in use at the save.
C9_SaveLoadRoundTrip ==
    [][ settings_file' # settings_file =>
          LET l == LoadedState(settings_file', now')
          IN  InUse(l.quotes, l.interval, l.theme, l.style)
                = InUse(quotes', rotation_interval', theme', text_style')
      ]_vars

\* C10: the stop control sets active_animation to None and the alpha to 255,
\* puts the window back at a held base_pos and clears base_pos: the
\* StopAnimations action within its frame, the Space key by the end of the
\* next frame.
C10_StopAll ==
    [][ /\ AnimFrameWith("StopAnimations") =>
              /\ active_animation' = "None"
              /\ win_alpha' = OpaqueAlpha
              /\ base_pos # NoPos => win_pos' = base_pos
              /\ base_pos' = NoPos
        /\ SpaceKey =>
              /\ active_animation' = "None"
              /\ win_alpha' = OpaqueAlpha
        /\ (active_animation = "None" /\ base_pos # NoPos /\ AnimFrameWith("none")) =>
              /\ active_animation' = "None"
              /\ win_alpha' = OpaqueAlpha
              /\ win_pos' = base_pos
              /\ base_pos' = NoPos
      ]_vars

\* C11: for distinct animations X and Y, a click on the trigger of Y while X
\* is active makes Y the active animation within that frame.
C11_TriggerReplaces ==
    [][ \A x \in Anims, y \in Anims :
          (x # y /\ active_animation = x /\ AnimFrameWith(PlayOf(y)))
              => active_animation' = y
      ]_vars

C13_ProgressResetAtStart ==
    [][ /\ (active_animation = "None" /\ active_animation' # "None")
            => anim_progress = 0
        /\ (active_animation # "None" /\ active_animation' # "None")
            => anim_progress' \in {anim_progress, anim_progress + 1}
      ]_vars

\* C14: on an empty quote list next, previous, delete at every index and
\* the automatic advance return the state they were given, and a frame with
\* PREV, NEXT or no operation leaves the list, the index and last_rotation
\* unchanged.
C14_EmptyNoOp ==
    [][ quotes = <<>> =>
          LET q == PanelState
          IN  /\ next_quote(q, now') = q
              /\ prev_quote(q, now') = q
              /\ \A i \in 0..MaxQuotes : delete_quote(q, i) = q
              /\ AutoAdvance(q, now') = q
              /\ (IdleFrame \/ NavFrame)
                    => UNCHANGED <<quotes, current_quote_index, last_rotation>>
      ]_vars

\* frames have run on an empty list with rotation enabled beyond the expiry
\* of the interval
C14_Witness ==
    /\ quotes = <<>>
    /\ current_quote_index = 0
    /\ rotation_enabled
    /\ now - last_rotation >= rotation_interval + SlowFrameMs

\* C17: on a non-empty list of length n, NEXT sets the index to (i+1) mod n
\* and PREV to (i-1) mod n, each undoes the other, and NEXT, PREV, a click
\* on a row and the automatic advance set last_rotation to the time of the
\* frame (i is the index after the automatic advance of the frame).
C17_NavWraps ==
    [][ Len(quotes) # 0 =>
          LET q == AutoAdvance(PanelState, now')
              n == Len(q.quotes)
          IN  /\ PanelFrameWith(Op("next", 0, ""))
                    => /\ current_quote_index' = (q.idx + 1) % n
                       /\ last_rotation' = now'
              /\ PanelFrameWith(Op("prev", 0, ""))
                    => /\ current_quote_index' = (q.idx - 1) % n
                       /\ last_rotation' = now'
              /\ \A i \in 0..(MaxQuotes - 1) :
                    PanelFrameWith(Op("select", i, ""))
                        => /\ current_quote_index' = i
                           /\ last_rotation' = now'
              /\ (PanelFrameWith(NoOp) /\ q # PanelState)
                    => /\ current_quote_index' = (current_quote_index + 1) % n
                       /\ last_rotation' = now'
              /\ prev_quote(next_quote(PanelState, now'), now').idx
                    = current_quote_index
              /\ next_quote(prev_quote(PanelState, now'), now').idx
                    = current_quote_index
      ]_vars

\* with rotation paused in the first frame, PREV on the first of three
\* quotes has wrapped to the last
C17_Witness ==
    /\ Len(quotes) = 3
    /\ current_quote_index = 2
    /\ ~rotation_enabled
    /\ now = 2 * SlowFrameMs
    /\ last_rotation = now

\* C15: Set Interval and Enter in the interval field make rotation_interval
\* the entered value clamped into [1, 60] seconds, set last_rotation to the
\* time of the frame and write the setting; and rotation_interval is within
\* [1, 60] seconds in every reachable state.
C15_IntervalClamped ==
    /\ [][ \A name \in {"set_interval", "enter_interval"} :
             PanelFrameWith(Op(name, 0, "")) =>
                 LET clamped == Clamp(interval_secs, MinIntervalSecs, MaxIntervalSecs)
                 IN  /\ rotation_interval' = DurationFromSecs(clamped)
                     /\ last_rotation' = now'
                     /\ settings_file'.present
                     /\ settings_file'.interval_secs = clamped
         ]_vars
    /\ [](/\ DurationFromSecs(MinIntervalSecs) <= rotation_interval
          /\ rotation_interval <= DurationFromSecs(MaxIntervalSecs))

\* C16: an add appends exactly one quote made of the main text and of the
\* supporting text, or of the default supporting text if that is empty, after
\* the unchanged earlier quotes, moves the index to the new last entry and
\* writes the settings file.
C16_AddAppends ==
    [][ /\ \A m \in Texts, sb \in Texts \cup {""} :
              LET a == add_quote(PanelState, m, sb)
              IN  /\ Len(a.quotes) = Len(quotes) + 1
                  /\ \A i \in 1..Len(quotes) : a.quotes[i] = quotes[i]
                  /\ a.quotes[Len(a.quotes)]
                        = Quote(m, IF sb = "" THEN DefaultSub ELSE sb)
                  /\ a.idx = Len(a.quotes) - 1
                  /\ a.file.present /\ a.file.quotes = a.quotes
        /\ (main_text_input # "" /\ PanelFrameWith(Op("add", 0, ""))) =>
              /\ quotes' = Append(quotes,
                                  Quote(main_text_input,
                                        IF sub_text_input = "" THEN DefaultSub
                                        ELSE sub_text_input))
              /\ current_quote_index' = Len(quotes') - 1
              /\ settings_file' = Config(quotes', interval_secs', theme', text_style')
      ]_vars

\* a second quote with a typed supporting text was added after one with the
\* default supporting text, is selected and is in the file
C16_Witness ==
    /\ Len(quotes) = 2
    /\ quotes[1].sub_text = DefaultSub
    /\ quotes[2].sub_text = "a"
    /\ current_quote_index = 1
    /\ main_text_input = ""
    /\ sub_text_input = ""
    /\ settings_file.quotes = quotes

\* the start position of the window and the number of 16 ms periods that
\* have elapsed: anim_progress (0.016 per increment) after that time in the
\* run with 16 ms frames
StartPos  == CHOOSE p \in StartPositions : TRUE
Elapsed16 == now \div ActiveFrameMs

\* C18: anim_progress and the Bounce and Fly displacement are functions of
\* the elapsed time alone: after the same time every run, whatever its frame
\* period, has the progress and (before Bounce meets an edge or Fly wraps)
\* the horizontal displacement that the run with 16 ms frames has.
C18_FrameRateIndependent ==
    active_animation # "None" =>
        /\ anim_progress = Elapsed16
        /\ ( /\ active_animation = "Bounce"
             /\ StartPos[1] + InitBounceVelX * Elapsed16 + win_size[1] <= monitor_size[1] )
                => win_pos[1] = StartPos[1] + InitBounceVelX * Elapsed16
        /\ ( /\ active_animation = "Fly"
             /\ StartPos[1] + FlySpeed * Elapsed16 <= monitor_size[1] )
                => win_pos[1] = StartPos[1] + FlySpeed * Elapsed16

\* C19: in a frame whose read of the window position or of the monitor
\* fails while an animation is active, the engine changes nothing: the
\* progress, the bounce velocity, the window position and alpha are
\* unchanged, base_pos and the active animation are unchanged unless a
\* trigger was clicked in the frame, and a following frame that reads the
\* geometry advances the progress again.
C19_GeometryFailureSkips ==
    [][ /\ \A action \in UiActions, pos_ok \in BOOLEAN, mon_ok \in BOOLEAN :
              ( /\ ~(pos_ok /\ mon_ok)
                /\ Render(action, pos_ok, mon_ok, NoOp, ActiveFrameMs, MaxNow)
                /\ active_animation' # "None" )
                  => /\ anim_progress' = anim_progress
                     /\ bounce_vel_x' = bounce_vel_x
                     /\ bounce_vel_y' = bounce_vel_y
                     /\ win_pos' = win_pos
                     /\ win_alpha' = win_alpha
                     /\ (action = "none" \/ active_animation # "None")
                           => base_pos' = base_pos
                     /\ action = "none" => active_animation' = active_animation
        /\ ( /\ active_animation # "None"
             /\ Render("none", TRUE, TRUE, NoOp, ActiveFrameMs, MaxNow) )
                  => anim_progress' = anim_progress + 1
      ]_vars

\* an animation was started in a frame that could not read the window
\* position, and no frame since has read the geometry: the engine has not
\* run a step
C19_Witness ==
    /\ active_animation # "None"
    /\ base_pos = NoPos
    /\ anim_progress = 0
    /\ now >= 2 * ActiveFrameMs

\* C20: after every frame in which a user action changes the quotes, the
\* interval, the theme or the text style, the settings file holds exactly
\* the quotes, the interval, the theme and the text style of the state.
C20_FileEqualsState ==
    [][ ( /\ now' # now
          /\ <<quotes', rotation_interval', theme', text_style'>>
                # <<quotes, rotation_interval, theme, text_style>> )
            => settings_file' = Config(quotes', rotation_interval' \div 1000,
                                       theme', text_style')
      ]_vars

\* C21: the processes spawned and not yet killed and waited on are exactly
\* the one held in bg_process, so at most one; a toggle-off leaves none held
\* and none alive; after the drop of the application state none is alive;
\* and a helper is held whenever is_3d_bg_active is true.
C21_HelperHeld ==
    /\ [](/\ helper_procs = IF bg_process = NoChild THEN {} ELSE {bg_process}
          /\ Cardinality(helper_procs) <= 1
          /\ app_dropped => helper_procs = {}
          /\ (is_3d_bg_active /\ ~app_dropped) => bg_process # NoChild)
    /\ [][ (is_3d_bg_active /\ ToggleBgFrame)
              => (~is_3d_bg_active' /\ bg_process' = NoChild /\ helper_procs' = {})
         ]_vars

\* ---------------------------------------------------------------------------
\* C22: for every progress value the alpha byte computed by Dissolve lies in
\* [102, 255] (opacity in [0.4, 1.0]), so the alpha applied to the window
\* lies in [102, 255] in every state and the window is never fully
\* transparent.
\* ---------------------------------------------------------------------------
C22_DissolveAlphaRange ==
    /\ \A k \in DOMAIN DissolveAlpha :
            DissolveAlpha[k] \in MinDissolveAlpha..OpaqueAlpha
    /\ win_alpha \in MinDissolveAlpha..OpaqueAlpha
    /\ win_alpha > 0

\* Dissolve is active and has reached the lowest alpha
C22_Witness ==
    /\ active_animation = "Dissolve"
    /\ anim_progress > 0
    /\ win_alpha = MinDissolveAlpha

\* ---------------------------------------------------------------------------
\* C23: in a frame that runs the Bounce step, the velocity on an axis is
\* negated exactly when the tentative position on that axis (position plus
\* velocity) is below 0 or, with the window extent added, beyond the monitor
\* extent, and is unchanged otherwise; each axis depends on its own
\* position, velocity and extent only.
\* ---------------------------------------------------------------------------
Crosses(p, v, extent, limit) == p + v < 0 \/ p + v + extent > limit

C23_BounceNegatesOnCrossing ==
    [][ \A action \in UiActions :
          ( /\ Render(action, TRUE, TRUE, NoOp, ActiveFrameMs, MaxNow)
            /\ active_animation' = "Bounce" )
              => /\ bounce_vel_x' =
                        IF Crosses(win_pos[1], bounce_vel_x, win_size'[1],
                                   monitor_size[1])
                        THEN -bounce_vel_x ELSE bounce_vel_x
                 /\ bounce_vel_y' =
                        IF Crosses(win_pos[2], bounce_vel_y, win_size'[2],
                                   monitor_size[2])
                        THEN -bounce_vel_y ELSE bounce_vel_y
      ]_vars

\* the first Bounce step of a window that met the bottom edge and not the
\* right edge: the vertical velocity alone is negated
C23_Witness ==
    /\ active_animation = "Bounce"
    /\ anim_progress = 1
    /\ win_pos[1] = StartPos[1] + InitBounceVelX
    /\ bounce_vel_x = InitBounceVelX
    /\ bounce_vel_y = -InitBounceVelY

\* ---------------------------------------------------------------------------
\* C24: every Rotate trigger sets rotation to (rotation + 1) mod 4 and swaps
\* the width and the height of the window; rotation is in 0..3 in every
\* state; four triggers return rotation and the window size to their
\* values; StopAnimations and the Space key change neither rotation nor the
\* window size.
\* ---------------------------------------------------------------------------
FourRotations ==
    PlayRotate(PlayRotate(PlayRotate(PlayRotate(AnimState))))

C24_RotateSwaps ==
    /\ [](/\ rotation \in 0..3
          /\ FourRotations.rot = rotation
          /\ FourRotations.size = win_size)
    /\ [][ /\ RotateTrigger
              => /\ rotation' = (rotation + 1) % 4
                 /\ win_size' = <<win_size[2], win_size[1]>>
           /\ (StopFrame \/ SpaceKey)
              => /\ rotation' = rotation
                 /\ win_size' = win_size
      ]_vars

\* ---------------------------------------------------------------------------
\* C25: in a frame whose trigger replaces a running animation by another
\* one, the handler recaptures no base_pos, resets no progress, leaves the
\* bounce velocity and the window alpha as they are; the frame as a whole
\* advances the progress from its old value, changes the velocity and a
\* captured base_pos only through the Bounce step of the new animation, and
\* the alpha only through the Dissolve step; and while the animation is
\* neither None nor Dissolve the alpha keeps its value.
\* ---------------------------------------------------------------------------
C25_ReplacementCarriesOver ==
    [][ /\ \A action \in UiActions, pos_ok \in BOOLEAN, mon_ok \in BOOLEAN :
              ( /\ Render(action, pos_ok, mon_ok, NoOp, ActiveFrameMs, MaxNow)
                /\ active_animation # "None"
                /\ active_animation' # "None"
                /\ active_animation' # active_animation )
                  => LET h == HandleAction(action, AnimState, pos_ok)
                     IN  /\ h.base = base_pos
                         /\ h.progress = anim_progress
                         /\ h.vx = bounce_vel_x
                         /\ h.vy = bounce_vel_y
                         /\ h.alpha = win_alpha
                         /\ anim_progress' =
                              IF pos_ok /\ mon_ok THEN anim_progress + 1
                                                  ELSE anim_progress
                         /\ active_animation' # "Bounce"
                              => /\ bounce_vel_x' = bounce_vel_x
                                 /\ bounce_vel_y' = bounce_vel_y
                                 /\ base_pos # NoPos => base_pos' = base_pos
                         /\ active_animation' = "Bounce"
                              => /\ bounce_vel_x' \in {bounce_vel_x, -bounce_vel_x}
                                 /\ bounce_vel_y' \in {bounce_vel_y, -bounce_vel_y}
                         /\ active_animation' # "Dissolve"
                              => win_alpha' = win_alpha
        /\ active_animation' \notin {"None", "Dissolve"}
              => win_alpha' = win_alpha
      ]_vars

\* Shake has replaced a Dissolve that had replaced a Bounce: the velocity
\* turned by Bounce, the alpha set by Dissolve and the progress are kept
C25_Witness ==
    /\ active_animation = "Shake"
    /\ anim_progress = 3
    /\ bounce_vel_x = -InitBounceVelX
    /\ win_alpha = DissolveAlpha[2]
    /\ win_alpha < OpaqueAlpha

\* ---------------------------------------------------------------------------
\* C28: in every state in which no animation is active (after every frame
\* and after the Space key) the window alpha is 255; a step that ends with
\* no animation active clears an alpha lowered by Dissolve, and an alpha
\* below 255 is found only with a captured base_pos, which is what makes the
\* idle branch of the engine reset it.
\* ---------------------------------------------------------------------------
C28_IdleIsOpaque ==
    /\ [](/\ active_animation = "None" => win_alpha = OpaqueAlpha
          /\ win_alpha < OpaqueAlpha => base_pos # NoPos)
    /\ [][ (win_alpha < OpaqueAlpha /\ active_animation' = "None")
              => win_alpha' = OpaqueAlpha ]_vars

\* the third frame has ended with no animation active, after a Bounce step
\* that met both far edges in the first frame and a frame that left the
\* window where that step had put it, as a Dissolve step does
C28_Witness ==
    /\ active_animation = "None"
    /\ win_alpha = OpaqueAlpha
    /\ now = 3 * ActiveFrameMs
    /\ bounce_vel_x = -InitBounceVelX
    /\ bounce_vel_y = -InitBounceVelY
    /\ win_pos = <<monitor_size[1] - win_size[1], monitor_size[2] - win_size[2]>>
    /\ base_pos = NoPos
    /\ anim_progress = 0

C26_HelperVisibility ==
    /\ [](tracking.frames < 5 => ~helper_visible)
    /\ [][ (SyncFrame /\ tracking.hwnd # 0)
              => /\ main_minimized => ~helper_visible'
                 /\ tracking'.frames < 5 => ~helper_visible'
                 /\ (tracking'.frames >= 5 /\ ~main_minimized) => helper_visible'
      ]_vars

\* the helper of a main window that is not minimized has run its 5th frame
\* and has shown its window
C26_Witness ==
    /\ tracking.hwnd = MainHwnd
    /\ tracking.pid \in helper_procs
    /\ tracking.frames = 5
    /\ ~main_minimized
    /\ helper_visible

\* ---------------------------------------------------------------------------
\* C27: the rotation passed through the RotationState property round-trips:
\* after a sync frame of a helper that tracks the main window, the angle
\* given to the camera is rotation mod 4 quarter turns.
\* ---------------------------------------------------------------------------
C27_RotationRoundTrip ==
    [][ (SyncFrame /\ tracking.hwnd # 0)
           => QuarterTurns(camera_rotation') = rotation % 4 ]_vars

\* ---------------------------------------------------------------------------
\* C30: in the WinAPI demo the window rectangle stays inside the screen and
\* the angle in [0, 360) for every sequence of B and R keys and timer ticks;
\* a tick whose step would leave the screen on an axis negates the velocity
\* of that axis and leaves its position where it was, any other tick of a
\* bouncing window adds the velocity; the position changes only while
\* bouncing is on and the angle only while rotating is on.
\* ---------------------------------------------------------------------------
DemoLeaves(p, v, half, screen) == p + v - half < 0 \/ p + v + half > 2 * screen

C30_DemoContained ==
    /\ [](/\ bounce_x - DemoHalfW >= 0
          /\ bounce_x + DemoHalfW <= 2 * screen_w
          /\ bounce_y - DemoHalfH >= 0
          /\ bounce_y + DemoHalfH <= 2 * screen_h
          /\ angle \in 0..(FullTurn - 1))
    /\ [][ /\ (bounce_x' # bounce_x \/ bounce_y' # bounce_y) => bouncing
           /\ angle' # angle => rotating
           /\ (DemoTimer /\ bouncing)
                => /\ IF DemoLeaves(bounce_x, vel_x, DemoHalfW, screen_w)
                      THEN vel_x' = -vel_x /\ bounce_x' = bounce_x
                      ELSE vel_x' = vel_x /\ bounce_x' = bounce_x + vel_x
                   /\ IF DemoLeaves(bounce_y, vel_y, DemoHalfH, screen_h)
                      THEN vel_y' = -vel_y /\ bounce_y' = bounce_y
                      ELSE vel_y' = vel_y /\ bounce_y' = bounce_y + vel_y
      ]_vars

\* the bouncing and rotating window has just been turned back at the right
\* edge of a screen wider than the window, after a full turn of the angle
C30_Witness ==
    /\ bouncing
    /\ rotating
    /\ screen_w > DemoWinW
    /\ vel_x = -DemoVelX
    /\ bounce_x + DemoVelX + DemoHalfW > 2 * screen_w
    /\ angle = FullTurn - AngleStep

====
